---- MODULE Spec2Model ----
(***************************************************************************)
(* OCRProcessor (ocr_extractor/ocr.py) with its StorageHandler             *)
(* (ocr_extractor/storage.py): load_file, handler and the per-page         *)
(* process loop, one step per region of the page.                          *)
(***************************************************************************)
EXTENDS Integers, Sequences, FiniteSets, TLC

\* ---------------------------------------------------------------- bounds
\* Regions the engine reports, in total, during one handler run.
MaxRegions == 3
\* Pages of the largest scanned pdf.
MaxPages == 2

\* ------------------------------------------------- ExtractionType values
TEXT_ONLY == 1
TABLE_ONLY == 2
TEXT_AND_TABLE == 3
IMAGE_AND_TABLE == 4
IMAGE_TABLE_COORDINATES == 5
ALL == 6

ExtractionTypes ==
    {TEXT_ONLY, TABLE_ONLY, TEXT_AND_TABLE, IMAGE_AND_TABLE,
     IMAGE_TABLE_COORDINATES, ALL}

\* ------------------------------------------------------ python values
\* A path or key: store is "s3" or "local", dir the directory part, name the
\* numbers of the file name, ext what follows them.
Path(store, dir, name, ext) ==
    [store |-> store, dir |-> dir, name |-> name, ext |-> ext]

\* The four characters N-o-n-e, as a string.
NoneText == Path("", "None", <<>>, "")

PyNone == [py |-> "NoneType", val |-> Path("", "", <<>>, "")]

PyStr(p) == [py |-> "str", val |-> p]

\* str(x): a string stays itself, None becomes the text "None".
Str(v) == IF v.py = "NoneType" THEN PyStr(NoneText) ELSE v

\* ------------------------------------------------------------- regions
\* One element of the engine's output. bbox is (x1, y1, x2, y2); html says
\* whether res carries the "html" key; res is the list of recognised text
\* fragments; img is the crop, of which only its size class matters.
Region(type, x1, y1, html, res, large) ==
    [type |-> type, bbox |-> <<x1, y1, x1 + 20, y1 + 20>>, html |-> html,
     res |-> res, img |-> [large |-> large]]

TextRegion == Region("text", 10, 10, FALSE, <<"Hello", "World">>, TRUE)
TitleRegion == Region("title", 50, 10, FALSE, <<"Title">>, TRUE)
ListRegion == Region("list", 10, 100, FALSE, <<"Item">>, TRUE)
TableRegion == Region("table", 50, 100, TRUE, <<>>, TRUE)
BareTableRegion == Region("table", 10, 10, FALSE, <<>>, TRUE)
FigureRegion == Region("figure", 50, 10, FALSE, <<"Fig">>, TRUE)
SmallFigureRegion == Region("figure", 10, 100, FALSE, <<>>, FALSE)

\* What the engine may report.
Universe ==
    {TextRegion, TitleRegion, ListRegion, TableRegion, BareTableRegion,
     FigureRegion, SmallFigureRegion}

\* All sequences over S of length at most n.
RECURSIVE SeqsUpTo(_, _)
SeqsUpTo(S, n) ==
    IF n = 0 THEN {<<>>}
    ELSE LET shorter == SeqsUpTo(S, n - 1)
         IN shorter \cup {Append(s, e) : s \in {t \in shorter : Len(t) = n - 1}, e \in S}

\* ------------------------------------------------------------- sorting
\* key=lambda x: (x["bbox"][1], x["bbox"][0])
SortKey(el) == <<el.bbox[2], el.bbox[1]>>

\* The comparison with the two coordinates taken in the other order.
KeyLess_XFirst(a, b) == a[2] < b[2] \/ (a[2] = b[2] /\ a[1] < b[1])

\* Tuple comparison a < b.
KeyLess(a, b) == a[1] < b[1] \/ (a[1] = b[1] /\ a[2] < b[2])

Front(s) == SubSeq(s, 1, Len(s) - 1)

Last(s) == s[Len(s)]

\* Insert el, the latest of the input, after every element not greater.
RECURSIVE Insert(_, _)
Insert(s, el) ==
    IF s = <<>> THEN <<el>>
    ELSE IF KeyLess(SortKey(el), SortKey(Last(s)))
         THEN Append(Insert(Front(s), el), Last(s))
         ELSE Append(s, el)

\* sorted(results, key=...): python's sort is stable.
RECURSIVE Sorted(_)
Sorted(s) == IF s = <<>> THEN <<>> ELSE Insert(Sorted(Front(s)), Last(s))

\* ------------------------------------------------------------- routing
RoutesCoordinates(el, mode) ==
    el.type \in {"figure", "table"} /\ mode \in {IMAGE_TABLE_COORDINATES, ALL}

RoutesFigure(el, mode) ==
    el.type \in {"figure"} /\ mode \in {IMAGE_AND_TABLE, ALL}

\* The text rule with TEXT_AND_TABLE among its modes.
RoutesText_TextAndTable(el, mode) ==
    el.type \in {"text", "figure"}
    /\ mode \in {TEXT_ONLY, TEXT_AND_TABLE, IMAGE_AND_TABLE, ALL}

RoutesText(el, mode) ==
    el.type \in {"text", "figure"} /\ mode \in {TEXT_ONLY, IMAGE_AND_TABLE, ALL}

RoutesTable(el, mode) ==
    el.type = "table"
    /\ mode \in {TABLE_ONLY, TEXT_AND_TABLE, IMAGE_AND_TABLE, ALL}

\* The markup test answering yes whatever the payload.
HasMarkup_Always(el) == TRUE

\* "html" in element.get("res", [])
HasMarkup(el) == el.html

\* The size policy of the crop.
filter_image_by_size(img) == img.large

\* ------------------------------------------------------------- storage
\* file_extension.group() if file_extension else ".jpg"
Extension(file_extension) == IF file_extension = "" THEN ".jpg" ELSE file_extension

CallResult(ret, wrote, raised) == [ret |-> ret, wrote |-> wrote, raised |-> raised]

\* get_s3_link_or_local_path_for_image: every way the call can end. In S3
\* mode: put_object fails with ClientError (None), the upload succeeds and
\* the url is signed, the upload succeeds and signing fails with ClientError
\* (None), or an exception other than ClientError leaves the call. On the
\* local disk: the file is saved, or saving raises.
ImageOutcomes(s3, file_extension, filename, dir_type) ==
    IF s3
    THEN LET key == Path("s3", dir_type, filename, Extension(file_extension))
         IN {CallResult(PyNone, <<>>, FALSE),
             CallResult(PyStr(key), <<key>>, FALSE),
             CallResult(PyNone, <<key>>, FALSE),
             CallResult(PyNone, <<>>, TRUE)}
    ELSE LET img_fpath == Path("local", "/tmp/images", filename, Extension(file_extension))
         IN {CallResult(PyStr(img_fpath), <<img_fpath>>, FALSE),
             CallResult(PyNone, <<>>, TRUE)}

\* get_s3_link_or_local_path_for_file: in S3 mode as for images; otherwise
\* the source path is returned as it came.
FileOutcomes(s3, src_filename, filename, file_ext) ==
    IF s3
    THEN LET key == Path("s3", "", filename, file_ext)
         IN {CallResult(PyNone, <<>>, FALSE),
             CallResult(PyStr(key), <<key>>, FALSE),
             CallResult(PyNone, <<key>>, FALSE),
             CallResult(PyNone, <<>>, TRUE)}
    ELSE {CallResult(PyStr(src_filename), <<>>, FALSE)}

\* random.randint(100, 10_000), sampled at its two ends.
TempSuffixes == {100, 10000}

\* /tmp/excel_{n}_tempfile.xlsx
TempOutput(n) == Path("local", "/tmp", <<n>>, "xlsx")

\* ------------------------------------------------- one region of the page
\* A call to the storage handler: which method, with which key, and what it
\* returned (for a call that raised, nothing).
StorageCall(op, dir_type, filename, r) ==
    [op |-> op, dir |-> dir_type, name |-> filename, ret |-> r.ret,
     raised |-> r.raised]

Effect(raised, images, tables, calls, fired) ==
    [raised |-> raised, images |-> images, tables |-> tables, calls |-> calls,
     fired |-> fired]

\* The figure branch of the loop body: nothing, or one call to the storage
\* handler, whose link goes through str() into extracted_images.
FigureEffects(el, idx, mode, s3, file_extension, page) ==
    IF RoutesFigure(el, mode) /\ filter_image_by_size(el.img)
    THEN {IF r.raised
          THEN Effect("storage", <<>>, <<>>,
                      <<StorageCall("image", "images", <<page, idx>>, r)>>, {"figure"})
          ELSE Effect("", <<Str(r.ret)>>, <<>>,
                      <<StorageCall("image", "images", <<page, idx>>, r)>>, {"figure"})
          : r \in ImageOutcomes(s3, file_extension, <<page, idx>>, "images")}
    ELSE {Effect("", <<>>, <<>>, <<>>, {})}

\* The table record of lines 236-241.
TableRecord(page, order, content_link, image_link) ==
    [page_number |-> page, order |-> order,
     content_link |-> Str(content_link), image_link |-> Str(image_link)]

\* The table branch once the markup is there: the conversion, the file call,
\* the image call, the record. An exception of any of the three ends it.
TableAttempt(el, s3, file_extension, page, order, f, i) ==
    LET name == <<page, order>>
        fcall == StorageCall("file", "", name, f)
        icall == StorageCall("image", "tables", name, i)
    IN IF f.raised THEN Effect("storage", <<>>, <<>>, <<fcall>>, {"table"})
       ELSE IF i.raised THEN Effect("storage", <<>>, <<>>, <<fcall, icall>>, {"table"})
       ELSE Effect("", <<>>, <<TableRecord(page, order, f.ret, i.ret)>>,
                   <<fcall, icall>>, {"table"})

TableEffects(el, mode, s3, file_extension, page, order) ==
    IF ~RoutesTable(el, mode) THEN {Effect("", <<>>, <<>>, <<>>, {})}
    ELSE IF ~HasMarkup(el) THEN {Effect("", <<>>, <<>>, <<>>, {"table"})}
    ELSE {Effect("convert", <<>>, <<>>, <<>>, {"table"})}
         \cup UNION {
            {TableAttempt(el, s3, file_extension, page, order, f, i) :
               f \in FileOutcomes(s3, TempOutput(n), <<page, order>>, "xlsx"),
               i \in ImageOutcomes(s3, file_extension, <<page, order>>, "tables")}
            : n \in TempSuffixes}

CoordinateRecord(el, page) ==
    [page_number |-> page, type |-> el.type, bbox |-> el.bbox]

\* texts.strip() of the fragments joined by blanks, kept as the fragments.
TextRecord(el, page, order) ==
    [page_number |-> page, order |-> order, content |-> el.res]

\* One pass of the loop body for element el at position idx: every way it can
\* end, as what it adds and whether an exception left it.
ElementEffects(el, idx, mode, s3, file_extension, page, text_no, table_no) ==
    LET rect == IF RoutesCoordinates(el, mode)
                THEN <<CoordinateRecord(el, page)>> ELSE <<>>
        cfired == IF RoutesCoordinates(el, mode) THEN {"coordinates"} ELSE {}
        text == IF RoutesText(el, mode)
                THEN <<TextRecord(el, page, text_no)>> ELSE <<>>
        tfired == IF RoutesText(el, mode) THEN {"text"} ELSE {}
    IN UNION {
         IF g.raised # ""
         THEN {[raised |-> g.raised, rect |-> rect, images |-> <<>>, texts |-> <<>>,
                tables |-> <<>>, calls |-> g.calls, fired |-> cfired \cup g.fired]}
         ELSE {[raised |-> t.raised, rect |-> rect, images |-> g.images,
                texts |-> text, tables |-> t.tables, calls |-> g.calls \o t.calls,
                fired |-> cfired \cup g.fired \cup tfired \cup t.fired]
               : t \in TableEffects(el, mode, s3, file_extension, page, table_no)}
         : g \in FigureEffects(el, idx, mode, s3, file_extension, page)}

\* ---------------------------------------------------------------- state
VARIABLES
    extraction_type,          \* self.extraction_type
    use_s3,                   \* the all([...]) test of the storage handler
    file_path,                \* self.file_path, "" before load_file
    is_image,                 \* self.is_image
    img_file_extension,       \* the matched extension, "" for no match
    disk,                     \* what is at file_path: state and page count
    final_combined_results,   \* self.final_combined_results
    pc,                       \* "idle", "loop", "process", "returned", "raised"
    exc,                      \* the exception that left handler, "" for none
    page_number,              \* page being processed, or the next one
    results,                  \* the engine's list, until the loop starts
    sorted_results,
    idx,                      \* elements of sorted_results already handled
    text_sort_number,
    table_sort_number,
    extracted_images,
    element_rect_coordinates,
    budget,                   \* regions the engine may still report in this run
    failed,                   \* pages of this run on which the engine raised
    calls,                    \* calls to the storage handler in the last loop pass
    fired,                    \* branches the last loop pass entered
    carried,                  \* entries left in the aggregate by handler's reset
    inherited                 \* whether the reset just made dropped earlier entries

vars ==
    <<extraction_type, use_s3, file_path, is_image, img_file_extension, disk,
      final_combined_results, pc, exc, page_number, results, sorted_results, idx,
      text_sort_number, table_sort_number, extracted_images,
      element_rect_coordinates, budget, failed, calls, fired, carried, inherited>>

config == <<extraction_type, use_s3>>

source == <<file_path, is_image, img_file_extension, disk>>

locals ==
    <<sorted_results, idx, text_sort_number, table_sort_number, extracted_images,
      element_rect_coordinates>>

EmptyResults ==
    [texts |-> <<>>, images |-> <<>>, tables |-> <<>>, rect_coordinates |-> <<>>]

\* A handler that goes on with the aggregate it finds.
ResetResults_Keep(old) == old

\* The aggregate handler starts from.
ResetResults(old) == EmptyResults

\* A page given up that still leaves an entry behind.
PageFailure_Partial(agg, page) ==
    [agg EXCEPT !.texts =
        Append(@, [page_number |-> page, order |-> 0, content |-> <<>>])]

\* The aggregate after a page whose engine call raised: the except clause logs
\* and returns.
PageFailure(agg, page) == agg

\* One counter numbering texts and tables alike.
NextTextNumber_Shared(text_no, e) == text_no + Len(e.texts) + Len(e.tables)

\* text_sort_number += 1, where a text entry was appended.
NextTextNumber(text_no, e) == text_no + Len(e.texts)

\* table_sort_number += 1, where a table record was appended.
NextTableNumber(table_no, e) == table_no + Len(e.tables)

Entries(agg) ==
    Len(agg.texts) + Len(agg.images) + Len(agg.tables) + Len(agg.rect_coordinates)

Paths == {"scan.png", "scan.pdf"}

\* re.search("(?i)\.(jpg|png|jpeg|gif)$", file_path)
ImgFileExtension(path) == IF path = "scan.png" THEN ".png" ELSE ""

DiskStates(path) ==
    IF path = "scan.png"
    THEN {[state |-> s, pages |-> 1] : s \in {"missing", "corrupt", "ok"}}
    ELSE {[state |-> s, pages |-> 0] : s \in {"missing", "corrupt"}}
         \cup {[state |-> "ok", pages |-> n] : n \in 1..MaxPages}

\* Passes of the page loop: one for an image (read or not), one per page of a
\* pdf that opens, none for a pdf that is not there.
PageCount ==
    IF is_image THEN 1 ELSE IF disk.state = "ok" THEN disk.pages ELSE 0

\* read_image gave an array (not None), or the pdf reader a page.
HasImageData == disk.state = "ok"

Init ==
    /\ extraction_type \in ExtractionTypes
    /\ use_s3 \in BOOLEAN
    /\ file_path = ""
    /\ is_image = TRUE
    /\ img_file_extension = ""
    /\ disk = [state |-> "missing", pages |-> 0]
    /\ final_combined_results = EmptyResults
    /\ pc = "idle"
    /\ exc = ""
    /\ page_number = 0
    /\ results = <<>>
    /\ sorted_results = <<>>
    /\ idx = 0
    /\ text_sort_number = 0
    /\ table_sort_number = 0
    /\ extracted_images = <<>>
    /\ element_rect_coordinates = <<>>
    /\ budget = MaxRegions
    /\ failed = {}
    /\ calls = <<>>
    /\ fired = {}
    /\ carried = 0
    /\ inherited = FALSE

Resting == pc \in {"idle", "returned", "raised"}

ClearLocals ==
    /\ sorted_results' = <<>>
    /\ idx' = 0
    /\ text_sort_number' = 0
    /\ table_sort_number' = 0
    /\ extracted_images' = <<>>
    /\ element_rect_coordinates' = <<>>

ClearHistory ==
    /\ results' = <<>>
    /\ budget' = MaxRegions
    /\ failed' = {}
    /\ calls' = <<>>
    /\ fired' = {}

\* load_file(file_path, is_image), the caller naming the kind the path has.
\* The file itself is not touched before handler runs.
LoadFile ==
    /\ Resting
    /\ \E path \in Paths :
         /\ file_path' = path
         /\ is_image' = (path = "scan.png")
         /\ img_file_extension' = ImgFileExtension(path)
    /\ pc' = "idle"
    /\ exc' = ""
    /\ page_number' = 0
    /\ ClearHistory
    /\ inherited' = FALSE
    /\ UNCHANGED <<config, disk, final_combined_results, locals, carried>>

\* handler, up to the first page: the reset, then opening the source, which
\* is found missing, undecodable or readable. A file that is there and cannot
\* be decoded raises out of handler.
Handler ==
    /\ Resting
    /\ file_path # ""
    /\ final_combined_results' = ResetResults(final_combined_results)
    /\ carried' = Entries(final_combined_results')
    /\ inherited' = (Entries(final_combined_results) > 0)
    /\ page_number' = 0
    /\ disk' \in DiskStates(file_path)
    /\ IF disk'.state = "corrupt"
       THEN pc' = "raised" /\ exc' = "decode"
       ELSE pc' = "loop" /\ exc' = ""
    /\ ClearHistory
    /\ UNCHANGED <<config, file_path, is_image, img_file_extension, locals>>

\* process, lines 153-157: the engine raises, the page is given up.
EngineRaises ==
    /\ pc = "loop"
    /\ page_number < PageCount
    /\ final_combined_results' = PageFailure(final_combined_results, page_number)
    /\ failed' = failed \cup {page_number}
    /\ page_number' = page_number + 1
    /\ inherited' = FALSE
    /\ UNCHANGED <<config, source, pc, exc, results, locals, budget, calls, fired,
                   carried>>

\* process, lines 153-164: the engine answers, the list is sorted and the
\* counters start. Without image data the engine can only raise.
EngineReturns ==
    /\ pc = "loop"
    /\ page_number < PageCount
    /\ HasImageData
    /\ \E rs \in SeqsUpTo(Universe, budget) :
         /\ results' = rs
         /\ sorted_results' = Sorted(rs)
         /\ budget' = budget - Len(rs)
    /\ idx' = 0
    /\ text_sort_number' = 0
    /\ table_sort_number' = 0
    /\ extracted_images' = <<>>
    /\ element_rect_coordinates' = <<>>
    /\ pc' = "process"
    /\ inherited' = FALSE
    /\ UNCHANGED <<config, source, final_combined_results, exc, page_number,
                   failed, calls, fired, carried>>

\* One pass of the loop of lines 166-244.
ProcessElement ==
    /\ pc = "process"
    /\ idx < Len(sorted_results)
    /\ \E e \in ElementEffects(sorted_results[idx + 1], idx, extraction_type,
                               use_s3, img_file_extension, page_number,
                               text_sort_number, table_sort_number) :
         /\ final_combined_results' =
              [final_combined_results EXCEPT
                 !.texts = @ \o e.texts, !.tables = @ \o e.tables]
         /\ calls' = e.calls
         /\ fired' = e.fired
         /\ IF e.raised # ""
            THEN /\ pc' = "raised"
                 /\ exc' = e.raised
                 /\ ClearLocals
            ELSE /\ pc' = pc
                 /\ exc' = exc
                 /\ idx' = idx + 1
                 /\ text_sort_number' = NextTextNumber(text_sort_number, e)
                 /\ table_sort_number' = NextTableNumber(table_sort_number, e)
                 /\ extracted_images' = extracted_images \o e.images
                 /\ element_rect_coordinates' = element_rect_coordinates \o e.rect
                 /\ sorted_results' = sorted_results
    /\ results' = <<>>
    /\ UNCHANGED <<config, source, page_number, budget, failed, carried, inherited>>

\* Lines 245-251, and back to the page loop of handler.
PageEnd ==
    /\ pc = "process"
    /\ idx = Len(sorted_results)
    /\ final_combined_results' =
         [final_combined_results EXCEPT
            !.images = IF extracted_images # <<>>
                       THEN Append(@, [page_number |-> page_number,
                                       images |-> extracted_images])
                       ELSE @,
            !.rect_coordinates = IF element_rect_coordinates # <<>>
                                 THEN Append(@, element_rect_coordinates)
                                 ELSE @]
    /\ page_number' = page_number + 1
    /\ pc' = "loop"
    /\ ClearLocals
    /\ results' = <<>>
    /\ fired' = {}
    /\ calls' = <<>>
    /\ UNCHANGED <<config, source, exc, budget, failed, carried, inherited>>

\* handler, line 270.
Return ==
    /\ pc = "loop"
    /\ page_number = PageCount
    /\ pc' = "returned"
    /\ UNCHANGED <<config, source, final_combined_results, exc, page_number,
                   results, locals, budget, failed, calls, fired, carried>>
    /\ inherited' = FALSE

Next ==
    \/ LoadFile
    \/ Handler
    \/ EngineRaises
    \/ EngineReturns
    \/ ProcessElement
    \/ PageEnd
    \/ Return

Spec == Init /\ [][Next]_vars

\* =================================================================
\* Properties
\* =================================================================

\* A loop pass that ran to its end.
PassCompletes == pc = "process" /\ pc' = "process" /\ idx' = idx + 1

\* The loop of the page is over; lines 245-251 are next.
EndOfLoop == pc = "process" /\ idx = Len(sorted_results)

Grows(after, before, by) == Len(after) = Len(before) + (IF by THEN 1 ELSE 0)

\* The routing table: the concerns that fire for a region of a type in a mode.
RoutingTable(type, mode, passes) ==
    (IF type \in {"table", "figure"} /\ mode \in {IMAGE_TABLE_COORDINATES, ALL}
     THEN {"coordinates"} ELSE {})
    \cup (IF type = "figure" /\ mode \in {IMAGE_AND_TABLE, ALL} /\ passes
          THEN {"figure"} ELSE {})
    \cup (IF type \in {"text", "figure"} /\ mode \in {TEXT_ONLY, IMAGE_AND_TABLE, ALL}
          THEN {"text"} ELSE {})
    \cup (IF type = "table"
             /\ mode \in {TABLE_ONLY, TEXT_AND_TABLE, IMAGE_AND_TABLE, ALL}
          THEN {"table"} ELSE {})

ReadsBefore(s, j, i) ==
    \/ s[j].bbox[2] < s[i].bbox[2]
    \/ s[j].bbox[2] = s[i].bbox[2] /\ s[j].bbox[1] < s[i].bbox[1]
    \/ s[j].bbox[2] = s[i].bbox[2] /\ s[j].bbox[1] = s[i].bbox[1] /\ j < i

\* Where element i of s belongs.
Rank(s, i) == 1 + Cardinality({j \in 1..Len(s) : ReadsBefore(s, j, i)})

\* C2: the list the loop goes through is the engine's list in ascending
\* (y1, x1), regions at the same (y1, x1) in the order the engine reported
\* them; the loop does not reorder it; and a page without regions leaves the
\* aggregate as it was.
C2_ReadingOrder ==
    [][/\ (pc' = "process" /\ idx' = 0) =>
            /\ Len(sorted_results') = Len(results')
            /\ \A i \in 1..Len(results') :
                 sorted_results'[Rank(results', i)] = results'[i]
       /\ PassCompletes => sorted_results' = sorted_results
       /\ (pc = "process" /\ sorted_results = <<>>) =>
            /\ final_combined_results' = final_combined_results
            /\ pc' = "loop"
    ]_vars

\* The engine reported the lowest region first and two regions at one corner.
C2_Witness ==
    /\ pc = "process"
    /\ idx = 0
    /\ results = <<TableRegion, BareTableRegion, TextRegion>>
    /\ sorted_results = <<BareTableRegion, TextRegion, TableRegion>>

\* The entries of a sequence that belong to page p.
OfPage(entries, p) == SelectSeq(entries, LAMBDA e : e.page_number = p)

\* 0, 1, ..., n - 1.
UpTo(n) == [k \in 1..n |-> k - 1]

Orders(entries) == [k \in 1..Len(entries) |-> entries[k].order]

IsTable(el) == el.type = "table"

IsText(el) == el.type = "text"

IsMarkupTable(el) == el.type = "table" /\ el.html

IsTextOrFigure(el) == el.type \in {"text", "figure"}

EmitsBoth == extraction_type \in {IMAGE_AND_TABLE, ALL}

NothingOfPage(agg, p) ==
    /\ OfPage(agg.texts, p) = <<>>
    /\ OfPage(agg.tables, p) = <<>>
    /\ OfPage(agg.images, p) = <<>>
    /\ \A b \in 1..Len(agg.rect_coordinates) :
         OfPage(agg.rect_coordinates[b], p) = <<>>

\* The text entries a page's regions give, whatever happened on other pages.
TextsOfRegions(regions, p, mode) ==
    IF mode \in {TEXT_ONLY, IMAGE_AND_TABLE, ALL}
    THEN LET sources == SelectSeq(regions, IsTextOrFigure)
         IN [k \in 1..Len(sources) |->
               [page_number |-> p, order |-> k - 1, content |-> sources[k].res]]
    ELSE <<>>

\* The numbers of the table records a page's regions give.
TableOrdersOfRegions(regions, mode) ==
    IF mode \in {TABLE_ONLY, TEXT_AND_TABLE, IMAGE_AND_TABLE, ALL}
    THEN UpTo(Len(SelectSeq(regions, IsMarkupTable)))
    ELSE <<>>

\* C4: a page on which the engine raised leaves no entry in texts, tables,
\* images or rect_coordinates, the engine's exception never leaves handler,
\* handler goes on to the pages after it and returns having gone through all
\* of them, and every other page has the entries its own regions give,
\* whichever pages failed.
C4_FailedPagesContained ==
    /\ \A p \in failed : NothingOfPage(final_combined_results, p)
    /\ failed \subseteq 0..(page_number - 1)
    /\ pc = "raised" => exc \in {"decode", "convert", "storage"}
    /\ pc = "returned" => exc = "" /\ page_number = PageCount
    /\ EndOfLoop =>
         /\ page_number \notin failed
         /\ OfPage(final_combined_results.texts, page_number)
              = TextsOfRegions(sorted_results, page_number, extraction_type)
         /\ Orders(OfPage(final_combined_results.tables, page_number))
              = TableOrdersOfRegions(sorted_results, extraction_type)

\* handler returned from a pdf whose first page failed, with a text of its
\* second page.
C4_Witness ==
    /\ pc = "returned"
    /\ failed = {0}
    /\ OfPage(final_combined_results.texts, 1) # <<>>

\* The last loop pass went through the table branch to its end: lines 225-242.
TablePassDone ==
    /\ pc = "process"
    /\ idx > 0
    /\ Len(calls) = 2
    /\ calls[1].op = "file"

\* C5, as stated: a table whose spreadsheet call returned no link and whose
\* image call returned one is still recorded, with content_link None and an
\* image_link that is not None, under the number the counter then passes; and
\* a table whose image call returned no link is recorded with image_link None.
C5_AsClaimed ==
    TablePassDone =>
        LET rec == Last(final_combined_results.tables)
        IN /\ final_combined_results.tables # <<>>
           /\ rec.page_number = page_number
           /\ rec.order = table_sort_number - 1
           /\ (calls[1].ret = PyNone /\ calls[2].ret # PyNone) =>
                 (rec.content_link = PyNone /\ rec.image_link # PyNone)
           /\ calls[2].ret = PyNone => rec.image_link = PyNone

\* The page of the end-to-end scenario, in the order the loop takes it.
ScenarioPage == <<TextRegion, SmallFigureRegion, TableRegion>>

\* C6, as stated: a single image in mode TEXT_AND_TABLE with a table at
\* (y1=100, x1=50), a text at (y1=10, x1=10) and a figure under the size
\* threshold ends, after the page's last step, with exactly one text entry
\* (order 0, page 0), one table entry (order 0, page 0), no image entry and
\* no coordinate entry.
C6_AsClaimed ==
    [][(EndOfLoop /\ is_image /\ extraction_type = TEXT_AND_TABLE
        /\ sorted_results = ScenarioPage) =>
        LET agg == final_combined_results'
        IN /\ Len(agg.texts) = 1
           /\ agg.texts[1].order = 0 /\ agg.texts[1].page_number = 0
           /\ Len(agg.tables) = 1
           /\ agg.tables[1].order = 0 /\ agg.tables[1].page_number = 0
           /\ agg.images = <<>>
           /\ agg.rect_coordinates = <<>>
    ]_vars

\* C7, as stated: handler never ends by raising, and with a source file that
\* is not there it returns four empty sequences.
C7_AsClaimed ==
    /\ pc # "raised"
    /\ (pc = "returned" /\ disk.state = "missing") =>
         final_combined_results = EmptyResults

\* The pages the entries of the aggregate name.
PagesOf(agg) ==
    {agg.texts[k].page_number : k \in 1..Len(agg.texts)}
    \cup {agg.tables[k].page_number : k \in 1..Len(agg.tables)}
    \cup {agg.images[k].page_number : k \in 1..Len(agg.images)}
    \cup UNION {{agg.rect_coordinates[b][k].page_number :
                   k \in 1..Len(agg.rect_coordinates[b])} :
                b \in 1..Len(agg.rect_coordinates)}

\* C8: handler's reset leaves no entry in the aggregate, so a run that has not
\* finished a page yet has an empty aggregate, and whatever a run holds or
\* returns belongs to pages this run has gone through.
C8_NoLeak ==
    /\ carried = 0
    /\ (pc = "loop" /\ page_number = 0) => final_combined_results = EmptyResults
    /\ pc \in {"loop", "process", "returned", "raised"} =>
         /\ PagesOf(final_combined_results) \subseteq 0..page_number
         /\ PagesOf(final_combined_results) \cap failed = {}
    /\ pc \in {"loop", "returned"} =>
         PagesOf(final_combined_results) \subseteq 0..(page_number - 1)

\* handler was called on a processor whose aggregate held an earlier run's
\* entries, and starts from an empty one.
C8_Witness ==
    /\ inherited
    /\ pc = "loop"
    /\ final_combined_results = EmptyResults

\* C9, as stated: the images sequence holds at most one record per page, and
\* each record lists at least one link, none of them absent: neither None nor
\* the text that stands for it.
C9_AsClaimed ==
    LET images == final_combined_results.images
    IN /\ \A j, k \in 1..Len(images) :
            images[j].page_number = images[k].page_number => j = k
       /\ \A k \in 1..Len(images) :
            /\ images[k].images # <<>>
            /\ \A n \in 1..Len(images[k].images) :
                 /\ images[k].images[n] # PyNone
                 /\ images[k].images[n] # PyStr(NoneText)

\* C10: a loop pass over a table region without markup, in a mode that emits
\* tables, adds no table record, calls the storage handler not once, leaves
\* table_sort_number as it was and goes on to the next region; and a table
\* record, when one is added, carries the number the counter then had.
C10_BareTableSkipped ==
    [][/\ (pc = "process" /\ idx < Len(sorted_results)
           /\ sorted_results[idx + 1].type = "table"
           /\ ~sorted_results[idx + 1].html
           /\ extraction_type \in {TABLE_ONLY, TEXT_AND_TABLE, IMAGE_AND_TABLE, ALL}) =>
            /\ final_combined_results'.tables = final_combined_results.tables
            /\ final_combined_results'.texts = final_combined_results.texts
            /\ calls' = <<>>
            /\ table_sort_number' = table_sort_number
            /\ text_sort_number' = text_sort_number
            /\ PassCompletes
            /\ sorted_results' = sorted_results
       /\ (PassCompletes
           /\ final_combined_results'.tables # final_combined_results.tables) =>
            /\ Last(final_combined_results'.tables).order = table_sort_number
            /\ Last(final_combined_results'.tables).page_number = page_number
            /\ table_sort_number' = table_sort_number + 1
    ]_vars

\* A table without markup was passed over and the table after it got order 0.
C10_Witness ==
    /\ pc = "process"
    /\ idx = 2
    /\ extraction_type = TABLE_ONLY
    /\ sorted_results[1] = BareTableRegion
    /\ sorted_results[2] = TableRegion
    /\ Len(final_combined_results.tables) = 1
    /\ final_combined_results.tables[1].order = 0

\* Where the aggregate carries a link: the n-th link of the k-th images
\* record, and the two links of the k-th table record.
LinkSlots(agg) ==
    {<<"images", k, n>> : k \in 1..Len(agg.images), n \in 1..MaxRegions}
    \cup {<<"content_link", k, 0>> : k \in 1..Len(agg.tables)}
    \cup {<<"image_link", k, 0>> : k \in 1..Len(agg.tables)}

HasLink(agg, s) ==
    s[1] = "images" => s[3] <= Len(agg.images[s[2]].images)

LinkAt(agg, s) ==
    IF s[1] = "images" THEN agg.images[s[2]].images[s[3]]
    ELSE IF s[1] = "content_link" THEN agg.tables[s[2]].content_link
    ELSE agg.tables[s[2]].image_link

\* A link that names a place, not the text that stands for a failed call.
NamesPlace(link) == link # PyStr(NoneText) /\ link # PyNone

\* C11, as stated: with the S3 store and with the local disk alike, the
\* places the artifacts of one run were written to are pairwise distinct, so
\* no two links of the aggregate that name a place name the same one.
C11_AsClaimed ==
    LET agg == final_combined_results
    IN \A s, t \in LinkSlots(agg) :
         (/\ HasLink(agg, s) /\ HasLink(agg, t)
          /\ s # t
          /\ NamesPlace(LinkAt(agg, s))
          /\ NamesPlace(LinkAt(agg, t))) =>
            LinkAt(agg, s) # LinkAt(agg, t)

====
